---- MODULE Spec2Model ----
(***************************************************************************)
(* The Pomodoro timer engine of focusmode (src/pomodoro.py, class          *)
(* PomodoroTimer) together with the callers of src/main.py that drive it   *)
(* (FocusModeApp.reset_cycles, skip_timer).                                *)
(*                                                                         *)
(* Processes: the caller (process 0, the thread that owns the user         *)
(* interface) and the countdown threads that start() creates (processes    *)
(* 1..MaxThreads).  The engine takes no lock, so every Python statement    *)
(* is a step of its own and the steps of the processes interleave freely;  *)
(* the read-modify-write "current_cycle += 1" is two steps (load, store).  *)
(*                                                                         *)
(* Time: the wall clock advances by at most ClockStep seconds at a time,   *)
(* while the processes wait (see Tick).  A countdown thread's end_time is  *)
(* kept relative to the clock: due[t] = end_time - time.time(), so a tick  *)
(* lowers due[t].                                                          *)
(***************************************************************************)
EXTENDS Integers, FiniteSets, Sequences, TLC

VARIABLES
    work_time,                 \* self.work_time (seconds)
    short_break,               \* self.short_break
    long_break,                \* self.long_break
    cycles_before_long_break,  \* self.cycles_before_long_break
    current_cycle,             \* self.current_cycle
    on_break,                  \* self.on_break
    is_running,                \* self.is_running
    time_left,                 \* self.time_left
    thread,                    \* self.thread: NoThread, a thread id, or Finished
    pc,                        \* pc[p]: the statement process p executes next
    due,                       \* due[t]: run_timer's end_time minus the clock
    reg,                       \* reg[p]: the value loaded by "current_cycle += 1"
    joinee,                    \* the thread the caller's join() waits for
    mainop,                    \* the handler the caller is executing
    calls,                     \* handlers the caller has invoked so far
    snap,                      \* the engine's fields when the handler the
                               \* caller is executing (stop(), reset(),
                               \* transition() or skip_timer) was invoked
    post,                      \* the engine's fields when reset() returned,
                               \* until the caller invokes another handler
    playback_active,           \* self.playback_active (the Event is set)
    selected_noise_path,       \* self.selected_noise_path
    currently_playing_wave_object,
                               \* self.currently_playing_wave_object: NoPlay
                               \* or the PlayObject of the last play() stored
    play,                      \* play[o]: what PlayObject o is doing
    npc,                       \* npc[n]: the statement of play_sound_loop()
                               \* noise thread n executes next
    nreg                       \* nreg[n]: the PlayObject thread n holds

vars == << work_time, short_break, long_break, cycles_before_long_break,
           current_cycle, on_break, is_running, time_left, thread,
           pc, due, reg, joinee, mainop, calls, snap, post,
           playback_active, selected_noise_path,
           currently_playing_wave_object, play, npc, nreg >>

----------------------------------------------------------------------------
\* Bounds of the model.

\* Handlers the caller invokes in one run.
MaxCalls == 3

\* Thread objects that exist at the same time (created and not yet finished).
MaxThreads == 2

\* current_cycle is not incremented beyond this: transition() is not entered
\* from a break, and does not load current_cycle, once it is reached.
MaxCycle == 4

\* Seconds by which the clock advances at most in one Tick.
ClockStep == 15 * 60

\* Arguments (minutes) the break setters are called with.
MinuteArgs == {0, 5}

\* Arguments (minutes) update_work_time is called with: the length of the
\* default short break, and another one.
WorkMinuteArgs == {0, 5, 10}

\* Arguments update_cycles_before_long_break is called with.
CycleArgs == {0, 2}

\* Noise threads alive at once, PlayObjects created in one run, and noise
\* handlers (set_noise, start_background_noise, stop_background_noise) the
\* caller invokes in one run.
MaxNoiseThreads == 2
MaxPlays == 3
MaxNoiseCalls == 4

----------------------------------------------------------------------------
\* Program constants (PomodoroTimer.__init__).

DefaultWorkTime == 25 * 60
DefaultShortBreak == 5 * 60
DefaultLongBreak == 15 * 60
DefaultCycles == 4

Main == 0
ThreadIds == 1..MaxThreads
Procs == {Main} \cup ThreadIds

\* Values of self.thread besides a live or unstarted thread's id.
NoThread == 0
Finished == -1

\* Noise threads (one per start_background_noise() that found a path) and
\* PlayObjects (one per wave_obj.play()).
NoiseIds == 1..MaxNoiseThreads
PlayIds == 1..MaxPlays

\* self.selected_noise_path and self.currently_playing_wave_object while
\* they are None (lines 44-47).
NoPath == "None"
NoPlay == 0

\* The files set_noise() is called with: one that loads, one for which
\* WaveObject.from_wave_file raises.
GoodPath == "sounds/whitenoise.wav"
BadPath == "sounds/missing.wav"
NoiseArgs == {NoPath, GoodPath, BadPath}

\* Python's a % b for b # 0: the result has the sign of b.
PyMod(a, b) == IF b > 0 THEN a % b ELSE -((-a) % (-b))

\* The rule of reset() (line 103) in the place of transition()'s.
LongBreakDueByCount(cycle, cycles) == cycle >= cycles

\* The condition of transition()'s Work branch, line 81.  cycles = 0 raises
\* ZeroDivisionError before anything is assigned (see trans_cond).
LongBreakDue(cycle, cycles) == PyMod(cycle, cycles) = 0 /\ cycle # 0

\* The condition of reset()'s break branch, line 103.
ResetPicksLong(cycle, cycles) == cycle >= cycles

\* The is_default property.
is_default == time_left = work_time /\ ~is_running

\* The fields of the engine an observer can read.
Fields ==
    [run |-> is_running, ob |-> on_break, tl |-> time_left, cc |-> current_cycle]

\* The phase the engine is in: the part of the fields skip_timer is
\* recorded with.
PhaseFields == [ob |-> on_break, cc |-> current_cycle]

\* Whether the engine is running and whether no countdown thread exists
\* (none started, or all have ended): what transition() is recorded with.
RunFields ==
    [run |-> is_running, rest |-> \A t \in ThreadIds : pc[t] = "none"]

\* snap and post while they record nothing.
NoFields == << >>

Init ==
    /\ work_time = DefaultWorkTime
    /\ short_break = DefaultShortBreak
    /\ long_break = DefaultLongBreak
    /\ cycles_before_long_break = DefaultCycles
    /\ current_cycle = 1
    /\ on_break = FALSE
    /\ is_running = FALSE
    /\ time_left = DefaultWorkTime
    /\ thread = NoThread
    /\ pc = [p \in Procs |-> IF p = Main THEN "idle" ELSE "none"]
    /\ due = [t \in ThreadIds |-> 0]
    /\ reg = [p \in Procs |-> 0]
    /\ joinee = NoThread
    /\ mainop = "none"
    /\ calls = 0
    /\ snap = NoFields
    /\ post = NoFields
    /\ playback_active = FALSE
    /\ selected_noise_path = NoPath
    /\ currently_playing_wave_object = NoPlay
    /\ play = [o \in PlayIds |-> "unused"]
    /\ npc = [n \in NoiseIds |-> "none"]
    /\ nreg = [n \in NoiseIds |-> NoPlay]

----------------------------------------------------------------------------
\* Frames.

Config == << work_time, short_break, long_break, cycles_before_long_break >>
Noise == << playback_active, selected_noise_path,
            currently_playing_wave_object, play, npc, nreg >>
Locals == << due, reg, joinee, calls >>

\* Control returns from the caller's handler, normally or by an exception
\* that propagates out of it (Tk reports it and the event loop goes on).
MainReturn == pc' = [pc EXCEPT ![Main] = "idle"] /\ mainop' = "none"

\* A countdown thread ends (run_timer returned or raised): its Thread object
\* is finished, so a join() on it returns at once and it cannot be started.
ThreadExit(t) ==
    /\ pc' = [pc EXCEPT ![t] = "none"]
    /\ due' = [due EXCEPT ![t] = 0]
    /\ reg' = [reg EXCEPT ![t] = 0]
    /\ thread' = IF thread = t THEN Finished ELSE thread
    /\ joinee' = IF joinee = t THEN Finished ELSE joinee
    /\ UNCHANGED << mainop, calls >>

\* Process p leaves its current call by an exception.
Raise(p) ==
    IF p = Main
    THEN MainReturn /\ UNCHANGED << due, reg, joinee, thread, calls >>
    ELSE ThreadExit(p)

\* Process p goes on at statement l; "idle" ends the caller's handler.
At(p, l) == pc[p] = l
Jump(p, l) ==
    /\ pc' = [pc EXCEPT ![p] = l]
    /\ mainop' = IF p = Main /\ l = "idle" THEN "none" ELSE mainop

Engine == << current_cycle, on_break, is_running, time_left, thread >>

\* The caller's handler returns on this step, and it does so by an exception
\* (RuntimeError of line 60 or line 96, ZeroDivisionError of line 81).
Returned == pc[Main] # "idle" /\ pc'[Main] = "idle"
Raised ==
    /\ Returned
    /\ \/ pc[Main] = "tr_cond"
       \/ pc[Main] = "st_join"
       \/ pc[Main] = "s_start" /\ ~(thread \in ThreadIds /\ pc[thread] = "new")

\* The records kept of the run: of the caller's handler from its invocation
\* to its return, and of the result of a reset() until another
\* handler is invoked.
Track ==
    /\ UNCHANGED Noise
    /\ snap' = IF Returned THEN NoFields ELSE snap
    /\ post' = IF Returned /\ ~Raised /\ mainop = "reset"
               THEN [run |-> is_running', ob |-> on_break', tl |-> time_left',
                     cc |-> current_cycle']
               ELSE IF Returned THEN NoFields ELSE post

----------------------------------------------------------------------------
\* start(), lines 54-60, run by the caller or, inside transition(), by a
\* countdown thread.

\* Where control goes when start() returns: back into transition() (line 89)
\* unless the caller invoked start() itself.
AfterStart(p) == IF p = Main /\ mainop = "start" THEN "idle" ELSE "tr_cb"

\* start() without the test of line 56.
start_if_always(p) ==
    /\ At(p, "s_if")
    /\ Jump(p, "s_set")
    /\ UNCHANGED << Config, Engine, Locals >>
    /\ Track

\* line 56: if not self.is_running
start_if(p) ==
    /\ At(p, "s_if")
    /\ Jump(p, IF is_running THEN AfterStart(p) ELSE "s_set")
    /\ UNCHANGED << Config, Engine, Locals >>
    /\ Track

\* line 57: self.is_running = True
start_set(p) ==
    /\ At(p, "s_set")
    /\ is_running' = TRUE
    /\ Jump(p, "s_new")
    /\ UNCHANGED << Config, current_cycle, on_break, time_left, thread, Locals >>
    /\ Track

\* line 59: self.thread = threading.Thread(target=self.run_timer).  A Thread
\* object that was never started and is no longer referenced is dropped, and
\* its place is free for the new one.
Free(k) == pc[k] = "none" \/ (k = thread /\ pc[k] = "new")
start_new(p) ==
    /\ At(p, "s_new")
    /\ \E k \in ThreadIds :
        /\ Free(k)
        /\ \A j \in ThreadIds : Free(j) => k <= j
        /\ thread' = k
        /\ pc' = [q \in Procs |->
                    IF q = p THEN "s_start"
                    ELSE IF q = k THEN "new"
                    ELSE IF q = thread /\ pc[q] = "new" THEN "none"
                    ELSE pc[q]]
    /\ mainop' = mainop
    /\ UNCHANGED << Config, current_cycle, on_break, is_running, time_left, Locals >>
    /\ Track

\* line 60: self.thread.start().  self.thread is read again: it is the Thread
\* assigned last, and starting a Thread a second time raises RuntimeError.
start_start(p) ==
    /\ At(p, "s_start")
    /\ IF thread \in ThreadIds /\ pc[thread] = "new"
       THEN /\ pc' = [pc EXCEPT ![thread] = "rt_init", ![p] = AfterStart(p)]
            /\ mainop' = IF AfterStart(p) = "idle" THEN "none" ELSE mainop
            /\ UNCHANGED << thread, Locals >>
       ELSE Raise(p)
    /\ UNCHANGED << Config, current_cycle, on_break, is_running, time_left >>
    /\ Track

----------------------------------------------------------------------------
\* run_timer(), lines 62-70, the body of a countdown thread t.

\* line 64: end_time = time.time() + self.time_left
run_init_full(t) ==
    /\ At(t, "rt_init")
    /\ due' = [due EXCEPT ![t] = IF on_break THEN short_break ELSE work_time]
    /\ Jump(t, "rt_while")
    /\ UNCHANGED << Config, Engine, reg, joinee, calls >>
    /\ Track

run_init(t) ==
    /\ At(t, "rt_init")
    /\ due' = [due EXCEPT ![t] = time_left]
    /\ Jump(t, "rt_while")
    /\ UNCHANGED << Config, Engine, reg, joinee, calls >>
    /\ Track

\* line 65: while self.is_running and time.time() < end_time
run_while(t) ==
    /\ At(t, "rt_while")
    /\ IF is_running /\ due[t] > 0
       THEN Jump(t, "rt_body") /\ due' = due
       ELSE Jump(t, "rt_if") /\ due' = [due EXCEPT ![t] = 0]
    /\ UNCHANGED << Config, Engine, reg, joinee, calls >>
    /\ Track

\* lines 66-67: self.time_left = round(end_time - time.time()); time.sleep(0.1)
run_body(t) ==
    /\ At(t, "rt_body")
    /\ time_left' = due[t]
    /\ Jump(t, "rt_while")
    /\ UNCHANGED << Config, current_cycle, on_break, is_running, thread, Locals >>
    /\ Track

\* line 68: if self.is_running
run_if(t) ==
    /\ At(t, "rt_if")
    /\ IF is_running
       THEN Jump(t, "rt_clear") /\ UNCHANGED << thread, Locals >>
       ELSE ThreadExit(t)
    /\ UNCHANGED << Config, current_cycle, on_break, is_running, time_left >>
    /\ Track

\* line 69: self.is_running = False; line 70 calls transition()
run_clear(t) ==
    /\ At(t, "rt_clear")
    /\ is_running' = FALSE
    /\ Jump(t, "tr_if")
    /\ UNCHANGED << Config, current_cycle, on_break, time_left, thread, Locals >>
    /\ Track

\* The wall clock.  A statement takes no time on the scale of the clock, and
\* a countdown polls every 0.1 s (line 67): time passes only while every
\* process waits (the caller in its event loop or in join(), each countdown
\* thread in the sleep of line 67, before the test of line 65, short of its
\* deadline), and by ClockStep seconds at most, or up to the nearest deadline
\* when that comes sooner.
Counting(t) == pc[t] = "rt_while"
Pending == {t \in ThreadIds : Counting(t)}
Waiting ==
    /\ \/ pc[Main] = "idle"
       \/ pc[Main] = "st_wait" /\ joinee # Finished
    /\ \A t \in ThreadIds : pc[t] = "none" \/ (Counting(t) /\ due[t] > 0)
Elapse ==
    IF \E t \in Pending : due[t] < ClockStep
    THEN CHOOSE d \in {due[t] : t \in Pending} :
             \A t \in Pending : d <= due[t]
    ELSE ClockStep
Tick ==
    /\ Pending # {}
    /\ Waiting
    /\ due' = [t \in ThreadIds |->
                 IF Counting(t) THEN due[t] - Elapse ELSE due[t]]
    /\ UNCHANGED << Config, Engine, pc, reg, joinee, mainop, calls >>
    /\ Track

----------------------------------------------------------------------------
\* transition(), lines 72-90, run by a countdown thread on natural expiry or
\* by the caller (a forced transition, a skip).

\* line 74: if self.on_break
trans_if(p) ==
    /\ At(p, "tr_if")
    /\ on_break => current_cycle < MaxCycle
    /\ Jump(p, IF on_break THEN "tr_work" ELSE "tr_cond")
    /\ UNCHANGED << Config, Engine, Locals >>
    /\ Track

\* line 76: self.time_left = self.work_time
trans_work(p) ==
    /\ At(p, "tr_work")
    /\ time_left' = work_time
    /\ Jump(p, "tr_unbreak")
    /\ UNCHANGED << Config, current_cycle, on_break, is_running, thread, Locals >>
    /\ Track

\* line 77: self.on_break = False
trans_unbreak(p) ==
    /\ At(p, "tr_unbreak")
    /\ on_break' = FALSE
    /\ Jump(p, "tr_load")
    /\ UNCHANGED << Config, current_cycle, is_running, time_left, thread, Locals >>
    /\ Track

\* line 78: self.current_cycle += 1, the load
trans_load(p) ==
    /\ At(p, "tr_load")
    /\ current_cycle < MaxCycle
    /\ reg' = [reg EXCEPT ![p] = current_cycle]
    /\ Jump(p, "tr_store")
    /\ UNCHANGED << Config, Engine, due, joinee, calls >>
    /\ Track

\* line 78: self.current_cycle += 1, the store; line 87 calls start()
NextCycle(loaded) == loaded + 1
trans_store(p) ==
    /\ At(p, "tr_store")
    /\ current_cycle' = NextCycle(reg[p])
    /\ reg' = [reg EXCEPT ![p] = 0]
    /\ Jump(p, "s_if")
    /\ UNCHANGED << Config, on_break, is_running, time_left, thread, due, joinee,
                    calls >>
    /\ Track

\* line 81: if self.current_cycle % self.cycles_before_long_break == 0 and
\* self.current_cycle != 0.  A zero divisor raises ZeroDivisionError.
trans_cond(p) ==
    /\ At(p, "tr_cond")
    /\ IF cycles_before_long_break = 0
       THEN Raise(p)
       ELSE /\ Jump(p, IF LongBreakDue(current_cycle, cycles_before_long_break)
                       THEN "tr_long" ELSE "tr_short")
            /\ UNCHANGED << thread, Locals >>
    /\ UNCHANGED << Config, current_cycle, on_break, is_running, time_left >>
    /\ Track

\* line 82: self.time_left = self.long_break
trans_long(p) ==
    /\ At(p, "tr_long")
    /\ time_left' = long_break
    /\ Jump(p, "tr_break")
    /\ UNCHANGED << Config, current_cycle, on_break, is_running, thread, Locals >>
    /\ Track

\* The assignment of line 82 in the place of line 84's.
trans_short_long(p) ==
    /\ At(p, "tr_short")
    /\ time_left' = long_break
    /\ Jump(p, "tr_break")
    /\ UNCHANGED << Config, current_cycle, on_break, is_running, thread, Locals >>
    /\ Track

\* line 84: self.time_left = self.short_break
trans_short(p) ==
    /\ At(p, "tr_short")
    /\ time_left' = short_break
    /\ Jump(p, "tr_break")
    /\ UNCHANGED << Config, current_cycle, on_break, is_running, thread, Locals >>
    /\ Track

\* Line 85 of a transition() that would not call start() (line 87 left
\* out).
trans_break_only(p) ==
    /\ At(p, "tr_break")
    /\ on_break' = TRUE
    /\ Jump(p, "tr_cb")
    /\ UNCHANGED << Config, current_cycle, is_running, time_left, thread, Locals >>
    /\ Track

\* line 85: self.on_break = True; line 87 calls start()
trans_break(p) ==
    /\ At(p, "tr_break")
    /\ on_break' = TRUE
    /\ Jump(p, "s_if")
    /\ UNCHANGED << Config, current_cycle, is_running, time_left, thread, Locals >>
    /\ Track

\* lines 89-90: self.transition_callback(), then transition() returns: a
\* countdown thread ends, the caller goes on with skip_timer or is done.
trans_callback(p) ==
    /\ At(p, "tr_cb")
    /\ IF p = Main
       THEN /\ Jump(p, IF mainop = "skip_timer" THEN "st_clear" ELSE "idle")
            /\ UNCHANGED << thread, Locals >>
       ELSE ThreadExit(p)
    /\ UNCHANGED << Config, current_cycle, on_break, is_running, time_left >>
    /\ Track

----------------------------------------------------------------------------
\* stop(), lines 92-96, run by the caller.

\* Where control goes when stop() returns: into reset() (line 101) unless the
\* caller invoked stop() itself or through skip_timer.
AfterStop == IF mainop \in {"stop", "skip_timer"} THEN "idle" ELSE "r_if"

\* line 94: self.is_running = False
stop_clear ==
    /\ At(Main, "st_clear")
    /\ is_running' = FALSE
    /\ Jump(Main, "st_if")
    /\ UNCHANGED << Config, current_cycle, on_break, time_left, thread, Locals >>
    /\ Track

\* line 95: if self.thread
stop_if ==
    /\ At(Main, "st_if")
    /\ Jump(Main, IF thread # NoThread THEN "st_join" ELSE AfterStop)
    /\ UNCHANGED << Config, Engine, Locals >>
    /\ Track

\* line 96: self.thread.join(), the call.  self.thread is read again; joining
\* a Thread that was not started yet raises RuntimeError.
stop_join ==
    /\ At(Main, "st_join")
    /\ IF thread \in ThreadIds /\ pc[thread] = "new"
       THEN Raise(Main)
       ELSE /\ joinee' = thread
            /\ Jump(Main, "st_wait")
            /\ UNCHANGED << thread, due, reg, calls >>
    /\ UNCHANGED << Config, current_cycle, on_break, is_running, time_left >>
    /\ Track

\* line 96: join() returns once the joined thread has ended
stop_joined ==
    /\ At(Main, "st_wait")
    /\ joinee = Finished
    /\ joinee' = NoThread
    /\ Jump(Main, AfterStop)
    /\ UNCHANGED << Config, Engine, due, reg, calls >>
    /\ Track

----------------------------------------------------------------------------
\* reset(), lines 98-109, after its stop().

\* Where control goes when reset() returns: into reset_cycles (main.py line
\* 667) or back to the event loop.
AfterReset == IF mainop = "reset_cycles" THEN "rc_cycle" ELSE "idle"

\* line 101: if self.on_break
reset_if ==
    /\ At(Main, "r_if")
    /\ Jump(Main, IF on_break THEN "r_cond" ELSE "r_work")
    /\ UNCHANGED << Config, Engine, Locals >>
    /\ Track

\* line 103: if self.current_cycle >= self.cycles_before_long_break
reset_cond ==
    /\ At(Main, "r_cond")
    /\ Jump(Main, IF ResetPicksLong(current_cycle, cycles_before_long_break)
                  THEN "r_long" ELSE "r_short")
    /\ UNCHANGED << Config, Engine, Locals >>
    /\ Track

\* line 104: self.time_left = self.long_break
reset_long ==
    /\ At(Main, "r_long")
    /\ time_left' = long_break
    /\ Jump(Main, AfterReset)
    /\ UNCHANGED << Config, current_cycle, on_break, is_running, thread, Locals >>
    /\ Track

\* line 106: self.time_left = self.short_break
reset_short ==
    /\ At(Main, "r_short")
    /\ time_left' = short_break
    /\ Jump(Main, AfterReset)
    /\ UNCHANGED << Config, current_cycle, on_break, is_running, thread, Locals >>
    /\ Track

\* line 109: self.time_left = self.work_time
reset_work ==
    /\ At(Main, "r_work")
    /\ time_left' = work_time
    /\ Jump(Main, AfterReset)
    /\ UNCHANGED << Config, current_cycle, on_break, is_running, thread, Locals >>
    /\ Track

----------------------------------------------------------------------------
\* The configuration setters, lines 111-127.

\* The caller's event loop takes the next event.
Invoke ==
    /\ At(Main, "idle")
    /\ calls < MaxCalls
    /\ calls' = calls + 1
    /\ UNCHANGED << due, reg, joinee, Noise >>

\* line 113: self.work_time = minutes * 60
NewDuration(minutes) == minutes * 60
update_work_time(minutes) ==
    /\ Invoke
    /\ work_time' = NewDuration(minutes)
    /\ pc' = [pc EXCEPT ![Main] = "uw_if"]
    /\ mainop' = "update_work_time"
    /\ UNCHANGED << short_break, long_break, cycles_before_long_break, Engine >>
    /\ snap' = NoFields
    /\ post' = NoFields

\* lines 114-115: if not self.is_running: self.reset()
update_work_time_if ==
    /\ At(Main, "uw_if")
    /\ Jump(Main, IF ~is_running THEN "st_clear" ELSE "idle")
    /\ UNCHANGED << Config, Engine, Locals >>
    /\ Track

\* line 119: self.short_break = minutes * 60
update_short_break(minutes) ==
    /\ Invoke
    /\ short_break' = NewDuration(minutes)
    /\ UNCHANGED << work_time, long_break, cycles_before_long_break,
                    Engine, pc, mainop >>
    /\ snap' = NoFields
    /\ post' = NoFields

\* line 123: self.long_break = minutes * 60
update_long_break(minutes) ==
    /\ Invoke
    /\ long_break' = NewDuration(minutes)
    /\ UNCHANGED << work_time, short_break, cycles_before_long_break,
                    Engine, pc, mainop >>
    /\ snap' = NoFields
    /\ post' = NoFields

\* line 127: self.cycles_before_long_break = cycles
update_cycles_before_long_break(cycles) ==
    /\ Invoke
    /\ cycles_before_long_break' = cycles
    /\ UNCHANGED << work_time, short_break, long_break, Engine, pc, mainop >>
    /\ snap' = NoFields
    /\ post' = NoFields

----------------------------------------------------------------------------
\* FocusModeApp.reset_cycles, main.py lines 664-669, after its reset_timer().

\* line 667: self.timer.current_cycle = 1
reset_cycles_cycle ==
    /\ At(Main, "rc_cycle")
    /\ current_cycle' = 1
    /\ Jump(Main, "rc_phase")
    /\ UNCHANGED << Config, on_break, is_running, time_left, thread, Locals >>
    /\ Track

\* line 668: self.timer.on_break = False
reset_cycles_phase ==
    /\ At(Main, "rc_phase")
    /\ on_break' = FALSE
    /\ Jump(Main, "rc_time")
    /\ UNCHANGED << Config, current_cycle, is_running, time_left, thread, Locals >>
    /\ Track

\* line 669: self.timer.time_left = self.timer.work_time
reset_cycles_time ==
    /\ At(Main, "rc_time")
    /\ time_left' = work_time
    /\ Jump(Main, "idle")
    /\ UNCHANGED << Config, current_cycle, on_break, is_running, thread, Locals >>
    /\ Track

----------------------------------------------------------------------------
\* The caller invokes a handler when it is idle.

\* The first statement of each handler.
Entry(op) ==
    CASE op = "start" -> "s_if"
      [] op \in {"stop", "reset", "reset_cycles"} -> "st_clear"
      [] op \in {"transition", "skip_timer"} -> "tr_if"

Call(op) ==
    /\ Invoke
    /\ pc' = [pc EXCEPT ![Main] = Entry(op)]
    /\ mainop' = op
    /\ UNCHANGED << Config, Engine >>
    /\ snap' = CASE op \in {"stop", "reset"} -> Fields
                 [] op = "skip_timer" -> PhaseFields
                 [] op = "transition" -> RunFields
                 [] OTHER -> NoFields
    /\ post' = IF op = "reset" THEN post ELSE NoFields

call_start == Call("start")
call_stop == Call("stop")
call_reset == Call("reset")
call_transition == Call("transition")
call_skip_timer == Call("skip_timer")
call_reset_cycles == Call("reset_cycles")

Next ==
    \/ Tick
    \/ call_start
    \/ call_stop
    \/ call_reset
    \/ call_transition
    \/ call_skip_timer
    \/ call_reset_cycles
    \/ \E m \in WorkMinuteArgs : update_work_time(m)
    \/ \E m \in MinuteArgs : update_short_break(m)
    \/ \E m \in MinuteArgs : update_long_break(m)
    \/ \E c \in CycleArgs : update_cycles_before_long_break(c)
    \/ update_work_time_if
    \/ stop_clear
    \/ stop_if
    \/ stop_join
    \/ stop_joined
    \/ reset_if
    \/ reset_cond
    \/ reset_long
    \/ reset_short
    \/ reset_work
    \/ reset_cycles_cycle
    \/ reset_cycles_phase
    \/ reset_cycles_time
    \/ \E p \in Procs : start_if(p)
    \/ \E p \in Procs : start_set(p)
    \/ \E p \in Procs : start_new(p)
    \/ \E p \in Procs : start_start(p)
    \/ \E p \in Procs : trans_if(p)
    \/ \E p \in Procs : trans_work(p)
    \/ \E p \in Procs : trans_unbreak(p)
    \/ \E p \in Procs : trans_load(p)
    \/ \E p \in Procs : trans_store(p)
    \/ \E p \in Procs : trans_cond(p)
    \/ \E p \in Procs : trans_long(p)
    \/ \E p \in Procs : trans_short(p)
    \/ \E p \in Procs : trans_break(p)
    \/ \E p \in Procs : trans_callback(p)
    \/ \E t \in ThreadIds : run_init(t)
    \/ \E t \in ThreadIds : run_while(t)
    \/ \E t \in ThreadIds : run_body(t)
    \/ \E t \in ThreadIds : run_if(t)
    \/ \E t \in ThreadIds : run_clear(t)

Spec == Init /\ [][Next]_vars

\* The engine with a caller that never calls stop() or reset(): it starts the
\* timer, forces transitions and sets break lengths and the cycle count
\* (update_work_time calls reset() on a timer that is not running).
ChainNext ==
    \/ Tick
    \/ call_start
    \/ call_transition
    \/ \E m \in MinuteArgs : update_short_break(m)
    \/ \E m \in MinuteArgs : update_long_break(m)
    \/ \E c \in CycleArgs : update_cycles_before_long_break(c)
    \/ \E p \in Procs : start_if(p)
    \/ \E p \in Procs : start_set(p)
    \/ \E p \in Procs : start_new(p)
    \/ \E p \in Procs : start_start(p)
    \/ \E p \in Procs : trans_if(p)
    \/ \E p \in Procs : trans_work(p)
    \/ \E p \in Procs : trans_unbreak(p)
    \/ \E p \in Procs : trans_load(p)
    \/ \E p \in Procs : trans_store(p)
    \/ \E p \in Procs : trans_cond(p)
    \/ \E p \in Procs : trans_long(p)
    \/ \E p \in Procs : trans_short(p)
    \/ \E p \in Procs : trans_break(p)
    \/ \E p \in Procs : trans_callback(p)
    \/ \E t \in ThreadIds : run_init(t)
    \/ \E t \in ThreadIds : run_while(t)
    \/ \E t \in ThreadIds : run_body(t)
    \/ \E t \in ThreadIds : run_if(t)
    \/ \E t \in ThreadIds : run_clear(t)

ChainSpec == Init /\ [][ChainNext]_vars

\* The statements of countdown thread t: run_timer() and the transition()
\* and start() it calls.
ThreadStep(t) ==
    \/ run_init(t) \/ run_while(t) \/ run_body(t) \/ run_if(t) \/ run_clear(t)
    \/ trans_if(t) \/ trans_work(t) \/ trans_unbreak(t) \/ trans_load(t)
    \/ trans_store(t) \/ trans_cond(t) \/ trans_long(t) \/ trans_short(t)
    \/ trans_break(t) \/ trans_callback(t)
    \/ start_if(t) \/ start_set(t) \/ start_new(t) \/ start_start(t)

\* The statements of stop().
StopStep == stop_clear \/ stop_if \/ stop_join \/ stop_joined

\* The engine driven by start() and stop() alone, scheduled fairly: a
\* countdown thread that can execute its next statement eventually does, as
\* does the caller inside stop(); and time passes (strong fairness, because
\* the clock of the model advances only while the countdown sleeps at line
\* 67, between two passes of the loop).
StopNext ==
    \/ Tick
    \/ call_start
    \/ call_stop
    \/ StopStep
    \/ start_if(Main) \/ start_set(Main) \/ start_new(Main) \/ start_start(Main)
    \/ \E t \in ThreadIds : ThreadStep(t)

StopSpec ==
    /\ Init /\ [][StopNext]_vars
    /\ SF_vars(Tick)
    /\ WF_vars(StopStep)
    /\ \A t \in ThreadIds : WF_vars(ThreadStep(t))

----------------------------------------------------------------------------
\* Background noise, lines 129-154.  The caller's noise handlers and the
\* noise threads leave the countdown alone.

Timer == << Config, Engine, due, reg, joinee, snap, post >>
NoiseLocals == << npc, nreg >>

NoiseInvoke(op, l) ==
    /\ At(Main, "idle")
    /\ calls < MaxNoiseCalls
    /\ calls' = calls + 1
    /\ pc' = [pc EXCEPT ![Main] = l]
    /\ mainop' = IF l = "idle" THEN "none" ELSE op
    /\ UNCHANGED Timer

NoiseJump(l) == Jump(Main, l) /\ UNCHANGED << Timer, calls >>

\* lines 129-131: self.selected_noise_path = noise_path
set_noise(noise_path) ==
    /\ NoiseInvoke("set_noise", "idle")
    /\ selected_noise_path' = noise_path
    /\ UNCHANGED << playback_active, currently_playing_wave_object, play,
                    NoiseLocals >>

call_start_background_noise ==
    /\ NoiseInvoke("start_background_noise", "sn_if")
    /\ UNCHANGED Noise

\* line 146: if self.selected_noise_path
start_noise_if ==
    /\ At(Main, "sn_if")
    /\ NoiseJump(IF selected_noise_path # NoPath THEN "sn_set" ELSE "idle")
    /\ UNCHANGED Noise

\* line 147: self.playback_active.set()
start_noise_set ==
    /\ At(Main, "sn_set")
    /\ playback_active' = TRUE
    /\ NoiseJump("sn_thread")
    /\ UNCHANGED << selected_noise_path, currently_playing_wave_object, play,
                    NoiseLocals >>

\* line 148: threading.Thread(target=self.play_sound_loop).start()
start_noise_thread ==
    /\ At(Main, "sn_thread")
    /\ \E n \in NoiseIds :
          /\ npc[n] = "none"
          /\ \A k \in NoiseIds : k < n => npc[k] # "none"
          /\ npc' = [npc EXCEPT ![n] = "nl_if"]
    /\ NoiseJump("idle")
    /\ UNCHANGED << playback_active, selected_noise_path,
                    currently_playing_wave_object, play, nreg >>

call_stop_background_noise ==
    /\ NoiseInvoke("stop_background_noise", "sb_if")
    /\ UNCHANGED Noise

\* line 152: if self.currently_playing_wave_object
stop_noise_if ==
    /\ At(Main, "sb_if")
    /\ NoiseJump(IF currently_playing_wave_object # NoPlay
                 THEN "sb_stop" ELSE "sb_clear")
    /\ UNCHANGED Noise

\* line 153: self.currently_playing_wave_object.stop(): the field is read
\* again; stop() ends the playback if the object is still playing.
stop_noise_stop ==
    /\ At(Main, "sb_stop")
    /\ play' = [o \in PlayIds |->
                  IF o = currently_playing_wave_object /\ play[o] = "playing"
                  THEN "stopped" ELSE play[o]]
    /\ NoiseJump("sb_clear")
    /\ UNCHANGED << playback_active, selected_noise_path,
                    currently_playing_wave_object, NoiseLocals >>

\* line 154: self.playback_active.clear()
stop_noise_clear ==
    /\ At(Main, "sb_clear")
    /\ playback_active' = FALSE
    /\ NoiseJump("idle")
    /\ UNCHANGED << selected_noise_path, currently_playing_wave_object, play,
                    NoiseLocals >>

\* play_sound_loop(), lines 133-142, run by noise thread n.

NoiseStep(n, l) ==
    /\ npc' = [npc EXCEPT ![n] = l]
    /\ UNCHANGED << Timer, pc, mainop, calls >>

\* The thread ends: the loop is left, or an exception was caught at line 141.
NoiseExit(n) ==
    /\ npc' = [npc EXCEPT ![n] = "none"]
    /\ nreg' = [nreg EXCEPT ![n] = NoPlay]
    /\ UNCHANGED << Timer, pc, mainop, calls >>

\* line 136: if self.selected_noise_path
loop_if(n) ==
    /\ npc[n] = "nl_if"
    /\ IF selected_noise_path # NoPath
       THEN NoiseStep(n, "nl_load") /\ UNCHANGED nreg
       ELSE NoiseExit(n)
    /\ UNCHANGED << playback_active, selected_noise_path,
                    currently_playing_wave_object, play >>

\* line 137: wave_obj = sa.WaveObject.from_wave_file(self.selected_noise_path)
\* The field is read again; a file that does not load raises.
loop_load(n) ==
    /\ npc[n] = "nl_load"
    /\ IF selected_noise_path = GoodPath
       THEN NoiseStep(n, "nl_while") /\ UNCHANGED nreg
       ELSE NoiseExit(n)
    /\ UNCHANGED << playback_active, selected_noise_path,
                    currently_playing_wave_object, play >>

\* line 138: while self.playback_active.is_set()
loop_while(n) ==
    /\ npc[n] = "nl_while"
    /\ IF playback_active
       THEN NoiseStep(n, "nl_play") /\ UNCHANGED nreg
       ELSE NoiseExit(n)
    /\ UNCHANGED << playback_active, selected_noise_path,
                    currently_playing_wave_object, play >>

\* line 139, right-hand side: wave_obj.play() starts a playback and returns
\* its PlayObject.
loop_play(n) ==
    /\ npc[n] = "nl_play"
    /\ \E o \in PlayIds :
          /\ play[o] = "unused"
          /\ \A k \in PlayIds : k < o => play[k] # "unused"
          /\ play' = [play EXCEPT ![o] = "playing"]
          /\ nreg' = [nreg EXCEPT ![n] = o]
    /\ NoiseStep(n, "nl_store")
    /\ UNCHANGED << playback_active, selected_noise_path,
                    currently_playing_wave_object >>

\* line 139, the assignment: self.currently_playing_wave_object = ...
loop_store(n) ==
    /\ npc[n] = "nl_store"
    /\ currently_playing_wave_object' = nreg[n]
    /\ NoiseStep(n, "nl_read")
    /\ UNCHANGED << playback_active, selected_noise_path, play, nreg >>

\* line 140: self.currently_playing_wave_object is read from the field
loop_read(n) ==
    /\ npc[n] = "nl_read"
    /\ nreg' = [nreg EXCEPT ![n] = currently_playing_wave_object]
    /\ NoiseStep(n, "nl_wait")
    /\ UNCHANGED << playback_active, selected_noise_path,
                    currently_playing_wave_object, play >>

\* line 140: wait_done() returns once the playback is over
loop_wait(n) ==
    /\ npc[n] = "nl_wait"
    /\ play[nreg[n]] # "playing"
    /\ NoiseStep(n, "nl_while")
    /\ UNCHANGED << playback_active, selected_noise_path,
                    currently_playing_wave_object, play, nreg >>

\* A playback reaches the end of its file.
play_done(o) ==
    /\ play[o] = "playing"
    /\ play' = [play EXCEPT ![o] = "done"]
    /\ UNCHANGED << Timer, pc, mainop, calls, playback_active,
                    selected_noise_path, currently_playing_wave_object,
                    NoiseLocals >>

NoiseNext ==
    \/ \E noise_path \in NoiseArgs : set_noise(noise_path)
    \/ call_start_background_noise
    \/ call_stop_background_noise
    \/ start_noise_if
    \/ start_noise_set
    \/ start_noise_thread
    \/ stop_noise_if
    \/ stop_noise_stop
    \/ stop_noise_clear
    \/ \E n \in NoiseIds : loop_if(n)
    \/ \E n \in NoiseIds : loop_load(n)
    \/ \E n \in NoiseIds : loop_while(n)
    \/ \E n \in NoiseIds : loop_play(n)
    \/ \E n \in NoiseIds : loop_store(n)
    \/ \E n \in NoiseIds : loop_read(n)
    \/ \E n \in NoiseIds : loop_wait(n)
    \/ \E o \in PlayIds : play_done(o)

NoiseSpec == Init /\ [][NoiseNext]_vars

----------------------------------------------------------------------------
\* Properties.

\* The step on which a stop() of the caller returns normally (line 95 finds
\* no thread, or the join of line 96 completes).
StopReturns ==
    /\ pc[Main] \in {"st_if", "st_wait"}
    /\ pc'[Main] = AfterStop

\* The engine is at rest: the caller is in its event loop and no countdown
\* thread exists.
AtRest == pc[Main] = "idle" /\ \A t \in ThreadIds : pc[t] = "none"

\* The caller is in its event loop and no process is inside transition(),
\* start(), or between the statements of another handler.
Settled ==
    /\ pc[Main] = "idle"
    /\ \A t \in ThreadIds : pc[t] \in {"none", "rt_init", "rt_while", "rt_body"}

\* The configuration is one of positive durations and a positive cycle count.
ValidConfig ==
    /\ work_time > 0
    /\ short_break > 0
    /\ long_break > 0
    /\ cycles_before_long_break >= 1

\* C1: when stop() returns, is_running is false, however the call
\* interleaves with a countdown thread that reaches its deadline.
C1_StoppedAfterStop == [][StopReturns => ~is_running']_vars

\* C2: when stop() returns, every countdown thread that start() created has
\* exited.
C2_NoThreadAfterStop ==
    [][StopReturns => \A t \in ThreadIds : pc'[t] = "none"]_vars

\* C3: whenever the engine is settled, time_left lies between 0 and the
\* configured duration of the current phase (stated for the configurations
\* of positive durations alone).  The engine does not record
\* which break it is on, so on a break the longer of the two break
\* durations is taken as the upper limit.
PhaseDuration ==
    IF ~on_break THEN work_time
    ELSE IF long_break >= short_break THEN long_break ELSE short_break
C3_TimeLeftInRange ==
    Settled /\ ValidConfig => 0 <= time_left /\ time_left <= PhaseDuration

\* C4: a Work-to-break transition selects the long break if and only if
\* current_cycle mod cycles_before_long_break is 0.
C4_LongBreakIffModulo ==
    [][\A p \in Procs :
         pc[p] = "tr_cond" /\ pc'[p] \in {"tr_long", "tr_short"}
         => (pc'[p] = "tr_long"
             <=> PyMod(current_cycle, cycles_before_long_break) = 0)]_vars

\* C4 witness: with the default of 4 cycles, the Work-to-break transition
\* at current_cycle 4 has selected the long break.
C4_Witness ==
    \E p \in Procs :
        /\ pc[p] = "tr_long"
        /\ current_cycle = 4
        /\ cycles_before_long_break = DefaultCycles

\* C5: on a break, reset() selects the long break exactly when transition()
\* does for the same current_cycle and cycles_before_long_break (stated for
\* the configurations of positive durations and cycle count alone).
C5_ResetFollowsModulo ==
    [][pc[Main] = "r_cond" /\ pc'[Main] \in {"r_long", "r_short"}
         /\ ValidConfig
       => (pc'[Main] = "r_long"
           <=> LongBreakDue(current_cycle, cycles_before_long_break))]_vars

\* C6: every transition() flips the phase: the assignment of on_break in
\* transition() changes its value, so two transitions in a row never both
\* yield a break nor both yield Work.  (Stated for the configurations of
\* positive durations, and with reset_cycles, which also assigns on_break,
\* left out.)
C6_TransitionAlternates ==
    [][\A p \in Procs :
         pc[p] \in {"tr_unbreak", "tr_break"} /\ pc'[p] # pc[p]
         /\ mainop # "reset_cycles" /\ ValidConfig
         => on_break' # on_break]_vars

\* C7: the break-to-Work branch of transition() leaves current_cycle one
\* higher than it was; the Work-to-break branch does not change it.
\* (Stated for the configurations of positive durations, and with
\* reset_cycles, which also assigns current_cycle, left out.)
C7_CycleIncrementsByOne ==
    [][\A p \in Procs :
         /\ pc[p] = "tr_store" /\ pc'[p] # pc[p]
            /\ mainop # "reset_cycles" /\ ValidConfig
            => current_cycle' = current_cycle + 1
         /\ pc[p] \in {"tr_cond", "tr_long", "tr_short", "tr_break"}
            /\ pc'[p] # pc[p]
            => current_cycle' = current_cycle]_vars

\* C8: current_cycle changes only by +1, on the break-to-Work branch of
\* transition(), or by the reset-cycles handler setting it to 1.  (Stated
\* for the configurations of positive durations.)
C8_CycleMonotone ==
    [][current_cycle' # current_cycle /\ ValidConfig
       => \/ current_cycle' = current_cycle + 1
             /\ \E p \in Procs : pc[p] = "tr_store" /\ pc'[p] # pc[p]
          \/ pc[Main] = "rc_cycle" /\ pc'[Main] # pc[Main]]_vars

\* C9: is_default is true exactly when the engine is in Work, not running,
\* with time_left equal to work_time (stated for the engine at rest and the
\* configurations of positive durations alone).
C9_IsDefaultIffPristine ==
    AtRest /\ ValidConfig
    => (is_default <=> ~on_break /\ ~is_running /\ time_left = work_time)

\* C10: the configured durations are positive and the cycle count is at
\* least 1.
C10_ConfigPositive == ValidConfig

\* Process p is inside an invocation of transition() (its start() included).
InTransition(p) ==
    /\ pc[p] \in {"tr_if", "tr_work", "tr_unbreak", "tr_load", "tr_store",
                  "tr_cond", "tr_long", "tr_short", "tr_break",
                  "s_if", "s_set", "s_new", "s_start", "tr_cb"}
    /\ p = Main => mainop \in {"transition", "skip_timer"}

\* C11: every invocation of transition() invokes the observer once, after
\* its assignments: a process leaves transition() only by the statement that
\* calls the observer (line 90), and reaches that statement only from the
\* start() of line 87, which follows the assignments of on_break, time_left
\* and current_cycle.  (Stated for the configurations of positive durations
\* and cycle count.)
C11_ObserverOncePerTransition ==
    [][\A p \in Procs :
         /\ InTransition(p) /\ ~InTransition(p)' /\ ValidConfig
            => pc[p] = "tr_cb"
         /\ InTransition(p) /\ pc[p] # "tr_cb" /\ pc'[p] = "tr_cb"
            => pc[p] \in {"s_if", "s_start"}
         /\ InTransition(p) /\ pc[p] # "s_if" /\ pc'[p] = "s_if"
            => pc[p] \in {"tr_store", "tr_break"}]_vars

C13_ChainNeverStops ==
    thread # NoThread /\ pc[Main] = "idle"
    => \E t \in ThreadIds : pc[t] # "none"

\* C14: start() on a running engine is a no-op: when the test of line 56
\* finds is_running true, start() returns at once; it creates no Thread and
\* leaves is_running, on_break, time_left, current_cycle and self.thread as
\* they are.
C14_StartWhileRunningNoOp ==
    [][\A p \in Procs :
         pc[p] = "s_if" /\ pc'[p] # "s_if" /\ is_running
         => /\ pc'[p] = AfterStart(p)
            /\ is_running' = is_running /\ on_break' = on_break
            /\ time_left' = time_left /\ current_cycle' = current_cycle
            /\ thread' = thread
            /\ \A t \in ThreadIds : pc'[t] = "new" => pc[t] = "new"]_vars

\* C14 witness: the caller is in start(), at the test of line 56, while the
\* engine is running and its countdown thread counts.
C14_Witness ==
    /\ mainop = "start" /\ pc[Main] = "s_if"
    /\ is_running
    /\ thread \in ThreadIds /\ Counting(thread)

\* C15: stop() does not alter the phase: when the caller's stop() returns,
\* on_break and current_cycle are what they were when it was invoked.
\* (Stated for the configurations of positive durations.  time_left is left
\* out: a countdown thread that has passed the test of line 65 writes the
\* remaining time of its countdown once more before it sees the flag.)
C15_StopKeepsPhase ==
    [][StopReturns /\ mainop = "stop" /\ ValidConfig
       => on_break' = snap.ob /\ current_cycle' = snap.cc]_vars

\* The step on which the caller's handler op returns normally.
Returns(op) == Returned /\ ~Raised /\ mainop = op

\* C16: reset() is idempotent: a reset() invoked next after a reset() leaves
\* time_left, is_running, on_break and current_cycle as the first one left
\* them.  (Stated for the configurations of positive durations.)
C16_ResetIdempotent ==
    [][Returns("reset") /\ post # NoFields /\ ValidConfig
       => /\ time_left' = post.tl
          /\ is_running' = post.run
          /\ on_break' = post.ob
          /\ current_cycle' = post.cc]_vars

\* C17: reset() does not change the phase or current_cycle: when the
\* caller's reset() returns, on_break and current_cycle are what they were
\* when it was invoked, and is_running is false.  (Stated for the
\* configurations of positive durations.)
C17_ResetKeepsPhase ==
    [][Returns("reset") /\ ValidConfig
       => /\ on_break' = snap.ob
          /\ current_cycle' = snap.cc
          /\ ~is_running']_vars

\* C18: update_work_time(m) on an engine that is not running leaves
\* time_left = m * 60 (the new work_time) when it returns from its reset();
\* on a running engine neither its assignment of work_time nor its test of
\* line 114 touches time_left or is_running.  (Stated for the
\* configurations of positive durations.)
C18_UpdateWorkTimeSetsTimeLeft ==
    [][/\ Returns("update_work_time") /\ pc[Main] # "uw_if" /\ ValidConfig
          => time_left' = work_time'
       /\ mainop' = "update_work_time" /\ (mainop = "none" \/ pc[Main] = "uw_if")
          /\ pc'[Main] # pc[Main]
          => time_left' = time_left /\ is_running' = is_running]_vars

\* C19: is_default is true after construction (no handler has been invoked
\* yet), true when the reset-cycles handler returns, and false when start()
\* returns.  (Stated for the configurations of positive durations.)
C19_IsDefaultAfterOps ==
    [][/\ calls = 0 => is_default
       /\ Returns("reset_cycles") /\ ValidConfig => is_default'
       /\ Returns("start") /\ ValidConfig => ~is_default']_vars

\* C20: when the reset-cycles handler returns, current_cycle is 1, the
\* phase is Work, time_left is work_time and the engine is not running.
\* (Stated for the configurations of positive durations.)
C20_ResetCyclesResult ==
    [][Returns("reset_cycles") /\ ValidConfig
       => /\ current_cycle' = 1
          /\ ~on_break'
          /\ time_left' = work_time'
          /\ ~is_running']_vars

\* The full duration of the phase the engine is in, by the rule of
\* transition() (lines 76, 81-84).
FullDuration(break, cycle) ==
    IF ~break THEN work_time
    ELSE IF LongBreakDue(cycle, cycles_before_long_break)
         THEN long_break ELSE short_break

\* C21: skip (transition() followed by stop(), as skip_timer does) ends with
\* the engine not running, the phase advanced by one step (on_break flipped,
\* current_cycle one higher when the skip leaves a break) and time_left equal
\* to the full duration of the phase entered.  (Stated for the
\* configurations of positive durations.)
C21_SkipAdvancesOnePhase ==
    [][Returns("skip_timer") /\ ValidConfig
       => /\ ~is_running'
          /\ on_break' # snap.ob
          /\ current_cycle' = IF snap.ob THEN snap.cc + 1 ELSE snap.cc
          /\ time_left' = FullDuration(on_break', current_cycle')]_vars

\* The countdown tasks executing the countdown loop of run_timer()
\* (lines 64-67).
InLoop == {t \in ThreadIds : pc[t] \in {"rt_init", "rt_while", "rt_body"}}

\* C22: at any time at most one countdown task is executing the countdown
\* loop.
C22_OneCountdown == Cardinality(InLoop) <= 1

\* C26: a transition() that the caller invoked on a stopped engine
\* (is_running false and no countdown thread alive) returns with is_running
\* true and a countdown task started (a live thread held in self.thread).
\* (Stated for the configurations of positive durations: a countdown of
\* zero seconds is over at once.)
C26_TransitionEndsRunning ==
    [][Returns("transition") /\ ~snap.run /\ snap.rest /\ ValidConfig
       => /\ is_running'
          /\ thread' \in ThreadIds
          /\ pc'[thread'] \notin {"none", "new"}]_vars

C26_Witness ==
    /\ mainop = "transition" /\ pc[Main] = "tr_cb" /\ ~snap.run /\ snap.rest
    /\ is_running /\ thread \in ThreadIds /\ pc[thread] = "rt_init"
    /\ on_break /\ time_left = short_break

\* The caller executes a statement of a start() it called itself.
CallerStartStep ==
    /\ mainop = "start"
    /\ pc[Main] \in {"s_if", "s_set", "s_new", "s_start"}
    /\ pc'[Main] # pc[Main]

\* C27: a start() after a stop() resumes the countdown: the deadline of the
\* new countdown is computed from the time_left the engine holds, not from
\* the full duration of the phase, and neither start() nor the first
\* statement of the countdown changes time_left, the phase or current_cycle.
C27_StartResumesFromTimeLeft ==
    [][/\ \A t \in ThreadIds :
             pc[t] = "rt_init" /\ pc'[t] = "rt_while"
             => /\ due'[t] = time_left
                /\ UNCHANGED << time_left, on_break, current_cycle >>
       /\ CallerStartStep
             => UNCHANGED << time_left, on_break, current_cycle >>]_vars

\* A countdown thread started on a Work phase of which 600 of the 1500
\* seconds are left, and no other countdown thread alive: the engine was
\* stopped in the middle of the phase (no transition has happened, no
\* reset() has restored the duration) and started again.
C27_Witness ==
    /\ work_time = DefaultWorkTime /\ ~on_break /\ current_cycle = 1
    /\ cycles_before_long_break = DefaultCycles
    /\ is_running /\ pc[Main] = "idle"
    /\ time_left = DefaultWorkTime - ClockStep
    /\ \E t \in ThreadIds :
          /\ pc[t] = "rt_init"
          /\ \A u \in ThreadIds \ {t} : pc[u] = "none"

\* The caller is inside stop().
InStop == pc[Main] \in {"st_clear", "st_if", "st_join", "st_wait"}

\* A process stands at a statement the bounds of the model do not let it
\* execute: current_cycle at MaxCycle, or MaxThreads thread objects in use.
AtBound ==
    \E p \in Procs :
        \/ pc[p] = "tr_if" /\ on_break /\ current_cycle >= MaxCycle
        \/ pc[p] = "tr_load" /\ current_cycle >= MaxCycle
        \/ pc[p] = "s_new" /\ \A k \in ThreadIds : ~Free(k)

\* Under fair scheduling no stop() waits for ever: the call ends, by a
\* return or by an exception.
StopEnds == InStop ~> (~InStop \/ AtBound)

\* C25: every call of stop() returns: in particular the join of line 96,
\* once reached, is entered and completes; stop() never ends by an
\* exception instead of returning.
C25_StopReturns ==
    [][pc[Main] = "st_join" => pc'[Main] \in {"st_join", "st_wait"}]_vars

\* The noise threads inside play_sound_loop().
NoiseLoops == {n \in NoiseIds : npc[n] # "none"}

\* C23: at any time at most one background-noise loop task is active.
C23_OneNoiseLoop == Cardinality(NoiseLoops) <= 1

\* C24: once stop_background_noise() has returned, and until the next
\* start_background_noise() (the flag is clear and the caller is in no noise
\* handler), no playback is in flight and no noise thread is about to start
\* one.
C24_StopSilences ==
    ~playback_active /\ pc[Main] = "idle"
    => /\ \A o \in PlayIds : play[o] # "playing"
       /\ \A n \in NoiseIds : npc[n] # "nl_play"

====
